---------------------------- MODULE Spec2Model ----------------------------
(***************************************************************************)
(* Model of mean_variance_sharpe_maximization                              *)
(* (src/mean_variance_optimization.py).                                    *)
(*                                                                         *)
(* Numbers are exact rationals: a vector is a sequence of integer          *)
(* numerators over one positive denominator.  Returns and the risk-free    *)
(* rate are multiples of 1/Unit.  NaN (pandas' result for a statistic of   *)
(* too few observations, numpy's result of 0/0) is the tag "nan"; Python's *)
(* None is the tag "none".                                                 *)
(*                                                                         *)
(* The ECOS back end behind prob.solve is a black box: the model returns   *)
(* the exact optimum of the QP and takes the numerical condition of the    *)
(* run (numerics) as part of the environment of the call.                  *)
(***************************************************************************)
EXTENDS Integers, Sequences, FiniteSets, TLC

\* ------------------------------------------------------------- bounds
\* Returns and rf are multiples of 1/Unit.
Unit == 2
\* Largest number of observations (rows) of an enumerated returns table.
MaxT == 3
\* Largest positive factor by which a covariance matrix is rescaled.
MaxScale == 3

\* The call slots: concurrent invocations of the function.
Calls == {1, 2, 3}

\* Values one cell of an enumerated returns table takes (in 1/Unit).
RetVals == {-1, 0, 1}

\* Risk-free rates (in 1/Unit): from below -1 up to positive.
RfVals == (0 - Unit - 1) .. 1

\* ------------------------------------------------------- rational values
NoneVal == [tag |-> "none", num |-> <<>>, den |-> 1]

NaNVec(n) == [tag |-> "nan", num |-> [i \in 1..n |-> 0], den |-> 1]

Vec(num, den) == [tag |-> "vec", num |-> num, den |-> den]

NaNMat(n) == [tag |-> "nan", num |-> [i \in 1..n |-> [j \in 1..n |-> 0]], den |-> 1]

Mat(num, den) == [tag |-> "vec", num |-> num, den |-> den]

RECURSIVE SumSeq(_)
SumSeq(s) == IF Len(s) = 0 THEN 0 ELSE Head(s) + SumSeq(Tail(s))

Abs(x) == IF x < 0 THEN 0 - x ELSE x

Sgn(x) == IF x < 0 THEN 0 - 1 ELSE IF x = 0 THEN 0 ELSE 1

RECURSIVE Gcd(_, _)
Gcd(x, y) == IF y = 0 THEN Abs(x) ELSE Gcd(y, x % Abs(y))

RECURSIVE GcdSeq(_)
GcdSeq(s) == IF Len(s) = 0 THEN 0 ELSE Gcd(Head(s), GcdSeq(Tail(s)))

\* The same rational vector in lowest terms.
Lowest(num, den) ==
    LET g == Gcd(den, GcdSeq(num))
    IN  Vec([i \in 1..Len(num) |-> num[i] \div g], den \div g)

\* ------------------------------------------------- the returns DataFrame
\* A table has cols columns (assets) and a sequence of rows (observations).
Table(cols, rows) == [cols |-> cols, rows |-> rows]

NumObs(tb) == Len(tb.rows)

Column(tb, i) == [t \in 1..NumObs(tb) |-> tb.rows[t][i]]

\* returns.mean().values: the arithmetic mean per column; NaN for no rows.
Mean(tb) ==
    IF NumObs(tb) = 0 THEN NaNVec(tb.cols)
    ELSE Vec([i \in 1..tb.cols |-> SumSeq(Column(tb, i))], NumObs(tb) * Unit)

\* returns.cov().values: the sample covariance with Bessel's correction,
\*   cov_ij = (T * sum x_i x_j - sum x_i * sum x_j) / (T (T - 1)),
\* NaN for fewer than two rows.
Cov(tb) ==
    LET T == NumObs(tb)
        S(i) == SumSeq(Column(tb, i))
        X(i, j) == SumSeq([t \in 1..T |-> tb.rows[t][i] * tb.rows[t][j]])
    IN  IF T < 2 THEN NaNMat(tb.cols)
        ELSE Mat([i \in 1..tb.cols |-> [j \in 1..tb.cols |-> T * X(i, j) - S(i) * S(j)]],
                 T * (T - 1) * Unit * Unit)


\* ------------------------------------------------------ the QP (cvxpy)
\* prob = cp.Problem(cp.Minimize(cp.quad_form(w, Sigma)),
\*                   [mu.T @ w - rf == 1, w >= 0])
\* with the positive denominators cleared:  minimise w' P w  subject to
\* a . w = b, w >= 0, where P = Sigma.num, a_i = rf.den * mu.num_i and
\* b = mu.den * (rf.den + rf.num).
Problem(mu, Sigma, rf) ==
    [n |-> Len(mu.num),
     P |-> Sigma.num,
     a |-> [i \in 1..Len(mu.num) |-> rf.den * mu.num[i]],
     b |-> mu.den * (rf.den + rf.num)]

\* The constraint set {w >= 0 : a . w = b} is non-empty.
Feasible(q) ==
    \/ q.b = 0
    \/ q.b > 0 /\ \E i \in 1..q.n : q.a[i] > 0
    \/ q.b < 0 /\ \E i \in 1..q.n : q.a[i] < 0

\* M without row 1 and column j.
Minor(M, j) ==
    [r \in 1..(Len(M) - 1) |->
        [c \in 1..(Len(M) - 1) |-> M[r + 1][IF c < j THEN c ELSE c + 1]]]

RECURSIVE Det(_)
Det(M) ==
    IF Len(M) = 0 THEN 1
    ELSE IF Len(M) = 1 THEN M[1][1]
    ELSE SumSeq([j \in 1..Len(M) |->
            IF M[1][j] = 0 THEN 0
            ELSE (IF j % 2 = 1 THEN 1 ELSE 0 - 1) * M[1][j] * Det(Minor(M, j))])

\* The i-th smallest element of a set of integers.
Nth(S, i) == CHOOSE x \in S : Cardinality({y \in S : y < x}) = i - 1

\* Mutant: a ridge term added to the diagonal, w' (P + I) w.
ObjectiveRidge(q) ==
    [i \in 1..q.n |-> [j \in 1..q.n |-> q.P[i][j] + (IF i = j THEN 1 ELSE 0)]]

\* Mutant: the covariance matrix left out, w' w.
ObjectiveNoCovariance(q) ==
    [i \in 1..q.n |-> [j \in 1..q.n |-> IF i = j THEN 1 ELSE 0]]

\* The objective's matrix as the solver sees it: cp.quad_form(w, Sigma).
Objective(q) == q.P

\* The KKT system of the QP on the support S (w_j = 0 off S):
\*     P_SS w_S - lambda a_S = 0,    a_S . w_S = b.
KKTMatrix(q, S) ==
    LET k == Cardinality(S)
        Q == Objective(q)
    IN  [r \in 1..(k + 1) |-> [c \in 1..(k + 1) |->
            IF r <= k /\ c <= k THEN Q[Nth(S, r)][Nth(S, c)]
            ELSE IF r <= k THEN 0 - q.a[Nth(S, r)]
            ELSE IF c <= k THEN q.a[Nth(S, c)]
            ELSE 0]]

\* K with column j replaced by the right-hand side (0, ..., 0, b).
KKTReplaced(q, S, j) ==
    LET k == Cardinality(S)
        K == KKTMatrix(q, S)
    IN  [r \in 1..(k + 1) |-> [c \in 1..(k + 1) |->
            IF c # j THEN K[r][c] ELSE IF r = k + 1 THEN q.b ELSE 0]]

\* Cramer's rule on the support S: the solution (w, lambda) over the
\* positive denominator |det K|.  The empty support is the origin.
KKTPoint(q, S) ==
    LET k == Cardinality(S)
        D == Det(KKTMatrix(q, S))
        x == [j \in 1..(k + 1) |-> Sgn(D) * Det(KKTReplaced(q, S, j))]
        pos == [i \in S |-> Cardinality({y \in S : y < i}) + 1]
    IN  IF S = {} THEN [w |-> [i \in 1..q.n |-> 0], lambda |-> 0, den |-> 1]
        ELSE [w |-> [i \in 1..q.n |-> IF i \in S THEN x[pos[i]] ELSE 0],
              lambda |-> x[k + 1],
              den |-> Abs(D)]

\* S carries an optimum: the KKT system has one solution, it is positive on
\* S, and the multipliers of w_j >= 0 off S are non-negative.
IsOptimalPoint(q, S, p) ==
    /\ p.den # 0
    /\ \A i \in S : p.w[i] > 0
    /\ \A j \in (1..q.n) \ S :
          SumSeq([i \in 1..q.n |-> Objective(q)[j][i] * p.w[i]]) - p.lambda * q.a[j] >= 0

\* The optimal vertices, by support.  For b = 0 the origin is optimal.
OptimalVertices(q) ==
    LET cand == IF q.b = 0 THEN {{}} ELSE (SUBSET (1..q.n)) \ {{}}
        pts == [S \in cand |-> KKTPoint(q, S)]
    IN  {Lowest(pts[S].w, pts[S].den) : S \in {S \in cand : IsOptimalPoint(q, S, pts[S])}}

RECURSIVE ProdDen(_)
ProdDen(V) ==
    IF V = {} THEN 1
    ELSE LET v == CHOOSE v \in V : TRUE
         IN  v.den * ProdDen(V \ {v})

RECURSIVE Total(_, _, _)
Total(V, all, i) ==
    IF V = {} THEN 0
    ELSE LET v == CHOOSE v \in V : TRUE
         IN  v.num[i] * (all \div v.den) + Total(V \ {v}, all, i)

\* The optimum the solver returns.  A convex QP's optima form a convex set;
\* where it is not a single point an interior-point method ends inside it:
\* the model takes the centre of its vertices.
Optimum(q) ==
    LET V == OptimalVertices(q)
        all == ProdDen(V)
    IN  Lowest([i \in 1..q.n |-> Total(V, all, i)], Cardinality(V) * all)


\* ----------------------------------------------------- the solver's run
\* The numerical condition of one ECOS run, fixed by the problem data:
\*   "ok"       ECOS ends with an exact certificate (exit 0 or 1);
\*   "reduced"  ECOS ends at reduced accuracy (exit 10 or 11);
\*   "unstable" ECOS ends at reduced accuracy on a wrong certificate
\*              (exit 12) where the problem has a solution;
\*   "stalled"  ECOS gives up (a negative exit code).
Numerics == {"ok", "reduced", "unstable", "stalled"}

\* prob.status after prob.solve(solver=cp.ECOS).
SolverStatus(q, cond) ==
    IF cond = "stalled" THEN "solver_error"
    ELSE IF ~Feasible(q) THEN (IF cond = "ok" THEN "infeasible" ELSE "infeasible_inaccurate")
    ELSE IF cond = "ok" THEN "optimal"
    ELSE IF cond = "reduced" THEN "optimal_inaccurate"
    ELSE "unbounded_inaccurate"

\* The statuses with which cvxpy stores a solution in w.value.
SolutionPresent == {"optimal", "optimal_inaccurate"}

\* w.value after the solve.
VariableValue(q, st) == IF st \in SolutionPresent THEN Optimum(q) ELSE NoneVal

\* ------------------------------------------------------------- errors
NoError == [type |-> "none", msg |-> "none", status |-> "none"]

\* cp.quad_form refuses a matrix that is not symmetric (NaN # NaN).
QuadFormError ==
    [type |-> "ValueError", msg |-> "Quadratic form matrices must be symmetric/Hermitian.",
     status |-> "none"]

\* cvxpy raises SolverError out of prob.solve when the solver gives up.
SolverError ==
    [type |-> "SolverError", msg |-> "Solver 'ECOS' failed.", status |-> "none"]

\* raise ValueError("Optimization failed: no solution found.")
NoSolutionError ==
    [type |-> "ValueError", msg |-> "Optimization failed: no solution found.",
     status |-> "none"]

Pending == [kind |-> "pending", weights |-> NoneVal, error |-> NoError]

Raised(err) == [kind |-> "raised", weights |-> NoneVal, error |-> err]

Returned(w) == [kind |-> "returned", weights |-> w, error |-> NoError]

\* w_opt is None
IsNone(v) == v.tag = "none"

\* w_norm = w_opt / np.sum(w_opt): numpy divides elementwise and raises
\* nothing; 0 / 0 is NaN.  (x_i / d) / (s / d) = x_i / s, in lowest terms
\* with the sign in the numerator.
Normalized(w) ==
    LET s == SumSeq(w.num)
    IN  IF s = 0
        THEN [tag |-> "nan", num |-> [i \in 1..Len(w.num) |-> 0], den |-> 1]
        ELSE Lowest([i \in 1..Len(w.num) |-> Sgn(s) * w.num[i]], Abs(s))

\* -------------------------------------------------------------- state
VARIABLES
    returns,    \* returns[c]: the DataFrame passed to call c
    rf,         \* rf[c]: the risk-free rate passed to call c
    numerics,   \* numerics[c]: the numerical condition of call c's solve
    pc,         \* pc[c]: where call c stands
    mu,         \* mu[c]: the local mu
    Sigma,      \* Sigma[c]: the local Sigma
    prob,       \* prob[c]: the formulated problem
    status,     \* status[c]: prob.status
    w_opt,      \* w_opt[c]: w.value
    outcome     \* outcome[c]: pending, the Series returned, or the error raised

vars == <<returns, rf, numerics, pc, mu, Sigma, prob, status, w_opt, outcome>>

NoProblem == [n |-> 0, P |-> <<>>, a |-> <<>>, b |-> 0]

Rate(num) == [num |-> num, den |-> Unit]

\* ------------------------------------------------------------ actions
\* Lines 23-25: mu = returns.mean().values; Sigma = returns.cov().values.
Stats(c) ==
    /\ pc[c] = "stats"
    /\ mu' = [mu EXCEPT ![c] = Mean(returns[c])]
    /\ Sigma' = [Sigma EXCEPT ![c] = Cov(returns[c])]
    /\ pc' = [pc EXCEPT ![c] = "formulate"]
    /\ UNCHANGED <<returns, rf, numerics, prob, status, w_opt, outcome>>

\* Lines 28-40: the variable, the objective, the constraints, the problem.
Formulate(c) ==
    /\ pc[c] = "formulate"
    /\ IF Sigma[c].tag = "nan"
       THEN /\ outcome' = [outcome EXCEPT ![c] = Raised(QuadFormError)]
            /\ pc' = [pc EXCEPT ![c] = "done"]
            /\ prob' = prob
       ELSE /\ prob' = [prob EXCEPT ![c] = Problem(mu[c], Sigma[c], rf[c])]
            /\ pc' = [pc EXCEPT ![c] = "solve"]
            /\ outcome' = outcome
    /\ UNCHANGED <<returns, rf, numerics, mu, Sigma, status, w_opt>>

\* Line 41: prob.solve(solver=cp.ECOS, verbose=False).
Solve(c) ==
    /\ pc[c] = "solve"
    /\ LET st == SolverStatus(prob[c], numerics[c])
       IN  /\ status' = [status EXCEPT ![c] = st]
           /\ IF st = "solver_error"
              THEN /\ outcome' = [outcome EXCEPT ![c] = Raised(SolverError)]
                   /\ pc' = [pc EXCEPT ![c] = "done"]
                   /\ w_opt' = w_opt
              ELSE /\ w_opt' = [w_opt EXCEPT ![c] = VariableValue(prob[c], st)]
                   /\ pc' = [pc EXCEPT ![c] = "retrieve"]
                   /\ outcome' = outcome
    /\ UNCHANGED <<returns, rf, numerics, mu, Sigma, prob>>

\* Lines 44-46: w_opt = w.value; if w_opt is None: raise ValueError(...).
Retrieve(c) ==
    /\ pc[c] = "retrieve"
    /\ IF IsNone(w_opt[c])
       THEN /\ outcome' = [outcome EXCEPT ![c] = Raised(NoSolutionError)]
            /\ pc' = [pc EXCEPT ![c] = "done"]
       ELSE /\ pc' = [pc EXCEPT ![c] = "normalize"]
            /\ outcome' = outcome
    /\ UNCHANGED <<returns, rf, numerics, mu, Sigma, prob, status, w_opt>>

\* Mutant: the solver variable shared by the calls (a module-level w), so
\* that a call normalizes whichever solution is there.
NormalizeShared(c) ==
    /\ pc[c] = "normalize"
    /\ \E d \in Calls :
          /\ w_opt[d].tag = "vec"
          /\ outcome' = [outcome EXCEPT ![c] = Returned(Normalized(w_opt[d]))]
    /\ pc' = [pc EXCEPT ![c] = "done"]
    /\ UNCHANGED <<returns, rf, numerics, mu, Sigma, prob, status, w_opt>>

\* Lines 47-49: w_norm = w_opt / np.sum(w_opt); return pd.Series(w_norm, ...).
Normalize(c) ==
    /\ pc[c] = "normalize"
    /\ outcome' = [outcome EXCEPT ![c] = Returned(Normalized(w_opt[c]))]
    /\ pc' = [pc EXCEPT ![c] = "done"]
    /\ UNCHANGED <<returns, rf, numerics, mu, Sigma, prob, status, w_opt>>

Next ==
    \E c \in Calls : Stats(c) \/ Formulate(c) \/ Solve(c) \/ Retrieve(c) \/ Normalize(c)

\* ------------------------------------------------- one call, any table
\* The rows of a table of n columns, and an order on them.
Rows(n) == [1..n -> RetVals]

RowKey(r) == SumSeq([i \in 1..Len(r) |-> (r[i] + 1) * (3 ^ (i - 1))])

\* Mean and covariance are sums over the rows, so the tables are enumerated
\* up to the order of their rows.
Tables(n) ==
    {Table(n, rows) : rows \in
        {rr \in UNION {[1..T -> Rows(n)] : T \in 0..MaxT} :
            \A t \in 1..(Len(rr) - 1) : RowKey(rr[t]) <= RowKey(rr[t + 1])}}

AssetCounts == {1, 2}

EmptyTable == Table(0, <<>>)

Locals ==
    /\ mu = [c \in Calls |-> NoneVal]
    /\ Sigma = [c \in Calls |-> NoneVal]
    /\ prob = [c \in Calls |-> NoProblem]
    /\ status = [c \in Calls |-> "none"]
    /\ w_opt = [c \in Calls |-> NoneVal]
    /\ outcome = [c \in Calls |-> Pending]

\* Call 1 is entered with any table and rate; the other slots are not in use.
Init ==
    /\ \E n \in AssetCounts : \E tb \in Tables(n) :
          returns = [c \in Calls |-> IF c = 1 THEN tb ELSE EmptyTable]
    /\ \E r \in RfVals : rf = [c \in Calls |-> Rate(IF c = 1 THEN r ELSE 0)]
    /\ \E cond \in Numerics : numerics = [c \in Calls |-> IF c = 1 THEN cond ELSE "ok"]
    /\ pc = [c \in Calls |-> IF c = 1 THEN "stats" ELSE "idle"]
    /\ Locals

Spec == Init /\ [][Next]_vars


\* ----------------------------------------------------- claim vocabulary
Done(c) == pc[c] = "done"

NumAssets(c) == returns[c].cols

\* The sample mean of asset i is strictly greater than rf (both denominators
\* are positive).
MeanAbove(c, i) ==
    LET m == Mean(returns[c])
    IN  m.tag = "vec" /\ m.num[i] * rf[c].den > rf[c].num * m.den

\* The entries of a weight vector are numbers that sum to 1.
SumsToOne(w) == w.tag = "vec" /\ SumSeq(w.num) = w.den

\* The entries of a weight vector are numbers, none negative.
NonNegative(w) == w.tag = "vec" /\ \A i \in 1..Len(w.num) : w.num[i] >= 0

\* The sum of the raw (unnormalized) solution is zero.
RawSumZero(c) == w_opt[c].tag = "vec" /\ SumSeq(w_opt[c].num) = 0

\* C1: a table of n >= 2 assets and T >= 2 observations with some asset's
\* mean strictly above rf, for any rf, yields (the solver converging) a
\* returned weight vector of n entries, summing to 1, none negative.
C1_FeasibleReturnsWeights ==
    \A c \in Calls :
        (/\ Done(c)
         /\ numerics[c] = "ok"
         /\ NumAssets(c) >= 2
         /\ NumObs(returns[c]) >= 2
         /\ \E i \in 1..NumAssets(c) : MeanAbove(c, i))
        => /\ outcome[c].kind = "returned"
           /\ Len(outcome[c].weights.num) = NumAssets(c)
           /\ SumsToOne(outcome[c].weights)
           /\ NonNegative(outcome[c].weights)

\* C2: a table in which every asset's mean is <= rf, for any rf, makes the
\* call raise the infeasibility error; no weight vector is returned.
C2_NoExcessReturnRaises ==
    \A c \in Calls :
        (/\ Done(c)
         /\ numerics[c] = "ok"
         /\ NumObs(returns[c]) >= 2
         /\ \A i \in 1..NumAssets(c) : ~MeanAbove(c, i))
        => /\ outcome[c].kind = "raised"
           /\ outcome[c].error = NoSolutionError

\* C3: when the raw solution sums to zero (the solver converging) the call
\* fails with an error before dividing; no weight vector (none of NaN entries) is returned.
C3_ZeroSumRaises ==
    \A c \in Calls :
        (Done(c) /\ numerics[c] = "ok" /\ RawSumZero(c))
        => /\ outcome[c].kind = "raised"
           /\ outcome[c].weights.tag # "nan"

\* C4: a weight vector is returned only if the solver ended with an optimal
\* solution, there were at least two observations, and the raw solution
\* did not sum to zero: every failure aborts the call.
C4_ReturnedOnlyIfOptimal ==
    \A c \in Calls :
        outcome[c].kind = "returned"
        => /\ status[c] = "optimal"
           /\ NumObs(returns[c]) >= 2
           /\ ~RawSumZero(c)

\* C5: for one asset and any rf (the solver converging): the weight 1 is
\* returned if the asset's mean is strictly above rf, and the infeasibility
\* error is raised otherwise.
C5_SingleAsset ==
    \A c \in Calls :
        (/\ Done(c)
         /\ numerics[c] = "ok"
         /\ NumAssets(c) = 1
         /\ NumObs(returns[c]) >= 2)
        => IF MeanAbove(c, 1)
           THEN /\ outcome[c].kind = "returned"
                /\ SumsToOne(outcome[c].weights)
                /\ Len(outcome[c].weights.num) = 1
           ELSE /\ outcome[c].kind = "raised"
                /\ outcome[c].error = NoSolutionError

\* C6: with fewer than two observations the call fails with an
\* insufficient-data error before any QP is formulated or solved, and
\* returns no weight vector.
C6_TooFewObservationsRaises ==
    \A c \in Calls :
        (pc[c] # "idle" /\ NumObs(returns[c]) < 2)
        => /\ pc[c] \in {"stats", "done"}
           /\ prob[c] = NoProblem
           /\ Done(c) => /\ outcome[c].kind = "raised"
                         /\ outcome[c].error.type = "InsufficientDataError"

\* C7: when the solver ends without a usable solution for a reason other
\* than infeasibility, the error raised differs from the one raised for
\* infeasibility, or carries the solver's status.
C7_FailureDistinguishable ==
    \A c \in Calls :
        (/\ Done(c)
         /\ outcome[c].kind = "raised"
         /\ status[c] \notin {"none", "infeasible", "infeasible_inaccurate"})
        => \/ outcome[c].error # NoSolutionError
           \/ outcome[c].error.status = status[c]


\* ------------------------------------- the QP stage on given statistics
\* Lines 28-49 entered with mu and Sigma as lines 23-25 left them.  The
\* table behind them is not represented (its statistics are not multiples
\* of 1/Unit); only its columns are.
NextQP ==
    \E c \in Calls : Formulate(c) \/ Solve(c) \/ Retrieve(c) \/ Normalize(c)

Diag3(x, y, z) == <<<<x, 0, 0>>, <<0, y, 0>>, <<0, 0, z>>>>

\* Two assets: means in 1/Unit, any positive-semidefinite covariance matrix
\* of small entries in 1/Unit^2.
Covs2 ==
    {M \in {<<<<t[1], t[2]>>, <<t[2], t[3]>>>> : t \in (0..2) \X ((0 - 1)..1) \X (0..2)} :
        M[1][1] * M[2][2] >= M[1][2] * M[1][2]}

QPInputs2 ==
    {[mu |-> Vec(m, Unit), Sigma |-> Mat(M, Unit * Unit)] :
        m \in [1..2 -> (0 - 1)..2], M \in Covs2}

\* Three uncorrelated assets.
QPInputs3 ==
    {[mu |-> Vec(m, Unit), Sigma |-> Mat(Diag3(v[1], v[2], v[3]), Unit * Unit)] :
        m \in [1..3 -> 1..2], v \in [1..3 -> 1..2]}

\* The end-to-end scenario: means 0.002, 0.001, 0.0005; variances 0.0001,
\* 0.00005, 0.00002; no covariance.
EndToEnd ==
    [mu |-> Vec(<<20, 10, 5>>, 10000), Sigma |-> Mat(Diag3(10, 5, 2), 100000)]

QPInputs == QPInputs2 \cup QPInputs3 \cup {EndToEnd}

\* c * M
Scaled(M, c) == [i \in 1..Len(M) |-> [j \in 1..Len(M) |-> c * M[i][j]]]

\* Call 1 solves for (mu, Sigma), call 2 for (mu, (c/d) Sigma); both at
\* rf = 0.
InitQP ==
    /\ \E in \in QPInputs : \E c \in 1..MaxScale : \E d \in {1, 2} :
          /\ mu = [k \in Calls |-> IF k = 3 THEN NoneVal ELSE in.mu]
          /\ Sigma = [k \in Calls |->
                IF k = 1 THEN in.Sigma
                ELSE IF k = 2 THEN Mat(Scaled(in.Sigma.num, c), d * in.Sigma.den)
                ELSE NoneVal]
          /\ returns = [k \in Calls |->
                IF k = 3 THEN EmptyTable ELSE Table(Len(in.mu.num), <<>>)]
    /\ rf = [k \in Calls |-> Rate(0)]
    /\ \E cond \in {"ok", "reduced"} : numerics = [k \in Calls |-> IF k = 3 THEN "ok" ELSE cond]
    /\ pc = [k \in Calls |-> IF k = 3 THEN "idle" ELSE "formulate"]
    /\ prob = [k \in Calls |-> NoProblem]
    /\ status = [k \in Calls |-> "none"]
    /\ w_opt = [k \in Calls |-> NoneVal]
    /\ outcome = [k \in Calls |-> Pending]

SpecQP == InitQP /\ [][NextQP]_vars

\* Two weight vectors are equal as vectors of rationals (or both NaN).
SameWeights(u, v) ==
    /\ u.tag = v.tag
    /\ Len(u.num) = Len(v.num)
    /\ u.tag = "vec" => \A i \in 1..Len(u.num) : u.num[i] * v.den = v.num[i] * u.den

\* Weight i exceeds weight j.
Heavier(w, i, j) == w.num[i] > w.num[j]

IsEndToEnd(c) ==
    /\ mu[c] = EndToEnd.mu
    /\ Sigma[c] = EndToEnd.Sigma
    /\ rf[c].num = 0

\* C8 (as claimed): for the end-to-end scenario the returned weights are
\* non-negative, sum to 1, and A and B each weigh more than C.
C8_OrderingAsClaimed ==
    \A c \in Calls :
        (IsEndToEnd(c) /\ Done(c))
        => /\ outcome[c].kind = "returned"
           /\ NonNegative(outcome[c].weights)
           /\ SumsToOne(outcome[c].weights)
           /\ Heavier(outcome[c].weights, 1, 3)
           /\ Heavier(outcome[c].weights, 2, 3)

\* C8 (amended): for the end-to-end scenario the returned weights are
\* non-negative, sum to 1, and are 4/13, 4/13, 5/13: C weighs more than A
\* and more than B, which weigh the same.
C8_OrderingAmended ==
    \A c \in Calls :
        (IsEndToEnd(c) /\ Done(c))
        => /\ outcome[c].kind = "returned"
           /\ NonNegative(outcome[c].weights)
           /\ SumsToOne(outcome[c].weights)
           /\ Heavier(outcome[c].weights, 3, 1)
           /\ Heavier(outcome[c].weights, 3, 2)
           /\ SameWeights(outcome[c].weights, Vec(<<4, 4, 5>>, 13))

C8_Witness ==
    IsEndToEnd(1) /\ Done(1) /\ outcome[1].kind = "returned"

\* Call 2's inputs are call 1's with the covariance matrix multiplied by a
\* positive constant.
ScaledPair ==
    /\ mu[1] = mu[2]
    /\ rf[1] = rf[2]
    /\ Sigma[1].tag = "vec" /\ Sigma[2].tag = "vec"
    /\ \E c \in 1..(MaxScale + 1) : \E d \in 1..2 :
          /\ Sigma[2].num = Scaled(Sigma[1].num, c)
          /\ Sigma[2].den = d * Sigma[1].den

\* C9: at rf = 0, with the covariance matrix multiplied by a positive
\* constant the optimizer returns the same normalized weights as without:
\* where either run returns, both do, and the weights are equal.
C9_ScaleInvariant ==
    (/\ ScaledPair
     /\ rf[1].num = 0
     /\ numerics[1] = numerics[2]
     /\ Done(1) /\ Done(2))
    => /\ outcome[1].kind = outcome[2].kind
       /\ outcome[1].kind = "returned"
            => SameWeights(outcome[1].weights, outcome[2].weights)

\* Both runs returned, on matrices that differ, a portfolio of two assets
\* or more.
C9_Witness ==
    /\ ScaledPair
    /\ rf[1].num = 0
    /\ Sigma[1].num # Sigma[2].num
    /\ Done(1) /\ Done(2)
    /\ outcome[1].kind = "returned" /\ outcome[2].kind = "returned"
    /\ outcome[1].weights.tag = "vec"
    /\ Cardinality({i \in 1..Len(outcome[1].weights.num) : outcome[1].weights.num[i] > 0}) >= 2


\* ------------------------------------------------------ concurrent calls
\* Three calls in progress at once: calls 1 and 2 on identical inputs,
\* call 3 on any input.
ConcTables ==
    {Table(2, <<<<1, 0>>, <<0, 1>>>>),
     Table(2, <<<<1, 0>>, <<1, 1>>>>),
     Table(2, <<<<1, 0>>>>)}

ConcInputs == {[table |-> tb, rf |-> Rate(r)] : tb \in ConcTables, r \in {0 - Unit, 0}}

\* ECOS is deterministic: the numerical condition of a solve is a function
\* of its input.
InitConc ==
    /\ \E same \in ConcInputs : \E other \in ConcInputs :
       \E ecos \in [ConcInputs -> Numerics] :
          /\ returns = [c \in Calls |-> IF c = 3 THEN other.table ELSE same.table]
          /\ rf = [c \in Calls |-> IF c = 3 THEN other.rf ELSE same.rf]
          /\ numerics = [c \in Calls |-> IF c = 3 THEN ecos[other] ELSE ecos[same]]
    /\ pc = [c \in Calls |-> "stats"]
    /\ Locals

SpecConc == InitConc /\ [][Next]_vars

\* Calls that were given identical inputs and have both ended ended alike.
SameInputSameOutcome ==
    \A c, d \in Calls :
        (/\ returns[c] = returns[d]
         /\ rf[c] = rf[d]
         /\ Done(c) /\ Done(d))
        => outcome[c] = outcome[d]

\* A step of one call leaves the locals and the outcome of the other calls
\* as they are.
Isolated ==
    \A c \in Calls :
        pc'[c] = pc[c]
        => /\ mu'[c] = mu[c]
           /\ Sigma'[c] = Sigma[c]
           /\ prob'[c] = prob[c]
           /\ status'[c] = status[c]
           /\ w_opt'[c] = w_opt[c]
           /\ outcome'[c] = outcome[c]

\* C10: calls on identical inputs, interleaved in any way with each other
\* and with a call on another input, end with the same outcome; no step of
\* a call changes another call's state, nor any call's input table.
C10_Deterministic ==
    /\ [](SameInputSameOutcome)
    /\ [][Isolated /\ returns' = returns /\ rf' = rf]_vars

\* Calls 1 and 2 returned weights while call 3, on another input, ended
\* with other weights.
C10_Witness ==
    /\ Done(1) /\ Done(2) /\ Done(3)
    /\ returns[3] # returns[1]
    /\ outcome[1].kind = "returned" /\ outcome[1].weights.tag = "vec"
    /\ outcome[2].kind = "returned"
    /\ outcome[3].kind = "returned"
    /\ outcome[3].weights # outcome[1].weights

=============================================================================
